---- MODULE Spec2Model ----
(***************************************************************************)
(* A model of ad-chroma's per-collection vector index (class DbIndex) as a *)
(* state machine: label assignment, resize, add / delete / search and the  *)
(* snapshot written to disk.                                               *)
(*                                                                         *)
(* Embedding ids are opaque strings in the program; here they are small    *)
(* integers.  Vectors are tuples of integers.  The cosine distance of the  *)
(* vectors used here is a multiple of 1/25, and distances are kept in that *)
(* unit.  A thrown Error is a call that ends with a non-empty `err`; the   *)
(* object keeps every assignment made before the throw.                    *)
(***************************************************************************)
EXTENDS Integers, Sequences, FiniteSets, TLC

VARIABLES
    dbIndex,    \* the fields of the one DbIndex instance
    disk,       \* the file system: directories and snapshot files
    result,     \* the last call: its arguments and what it returned or threw
    assignLog,  \* history: the <<id, label>> pairs put into idToLabel, in order
    sqliteDb,   \* the one SqliteDb: its two tables and its _indexCache field
    calls       \* the DbIndex calls in flight, each at the await it stopped at

vars == <<dbIndex, disk, result, assignLog, sqliteDb, calls>>

(***************************************************************************)
(* Bounds of the model.                                                    *)
(***************************************************************************)
NumIds == 2         \* embedding ids the calls name
MaxBatch == 2       \* records in one addVectors batch, ids in one deleteVectors
MaxK == 2           \* largest k of a search
MaxLabels == 2      \* labels handed out to the named ids before add stops
MaxInFlight == 2    \* DbIndex calls in flight at once

(***************************************************************************)
(* Program constants.                                                      *)
(***************************************************************************)
DEFAULT_MAX_ELEMENTS_IN_INDEX == 1000

(***************************************************************************)
(* Inputs.                                                                 *)
(***************************************************************************)
Ids == 1..NumIds

\* vectors of the index dimensionality, and one that is too short
GoodVectors == {<<1, 0>>, <<0, 1>>}
BadVectors == {<<1>>}
Vectors == GoodVectors \cup BadVectors
Queries == GoodVectors \cup {<<4, 3>>} \cup BadVectors

IndexData == [id : Ids, embedding : Vectors]
Batches == UNION {[1..n -> IndexData] : n \in 1..MaxBatch}
IdLists == UNION {[1..n -> Ids] : n \in 1..MaxBatch}

\* indexResizeFactor is a positive number: num / den
ResizeFactors == {[num |-> 1, den |-> 2], [num |-> 1, den |-> 1], [num |-> 2, den |-> 1]}

\* maxElements is optional: {} when the configuration leaves it out
MaxElementsOptions == {{}, {2000}}

IndexConfigs ==
    [id : {"c1"}, persistDirectory : {"data"}, numberOfDimensions : {2},
     maxElements : MaxElementsOptions, indexResizeFactor : ResizeFactors]

(***************************************************************************)
(* Small helpers.                                                          *)
(***************************************************************************)
EmptyMap == [x \in {} |-> 0]

Range(f) == {f[x] : x \in DOMAIN f}

Max(a, b) == IF a >= b THEN a ELSE b

Min(a, b) == IF a <= b THEN a ELSE b

Remove(f, x) == [y \in DOMAIN f \ {x} |-> f[y]]

Dot(u, v) == IF Len(u) = 1 THEN u[1] * v[1] ELSE u[1] * v[1] + u[2] * v[2]

Norm(u) == CHOOSE n \in 0..5 : n * n = Dot(u, u)

\* cosine distance 1 - u.v / (|u| |v|), in units of 1/25
Distance(u, v) == 25 - (25 * Dot(u, v)) \div (Norm(u) * Norm(v))

(***************************************************************************)
(* The ANN structure (HierarchicalNSW of hnswlib-node), as the index uses  *)
(* it: a capacity, the points stored under their labels, and the labels    *)
(* marked deleted.  getCurrentCount() is the number of stored points,      *)
(* deleted ones included.                                                  *)
(***************************************************************************)
NullIndex == [null |-> TRUE]

NullMetadata == [null |-> TRUE]

\* new HierarchicalNSW("cosine", dim) followed by initIndex(maxElements)
HierarchicalNSW(dim, maxElements) ==
    [null |-> FALSE, dim |-> dim, maxElements |-> maxElements,
     points |-> EmptyMap, deleted |-> {}]

getCurrentCount(h) == Cardinality(DOMAIN h.points)

\* resizeIndex(n): the capacity becomes n; refuses a capacity below the
\* number of stored points
resizeIndex(h, newSize) ==
    IF newSize < getCurrentCount(h)
    THEN [h |-> h, err |-> "ResizeBelowCount"]
    ELSE [h |-> [h EXCEPT !.maxElements = newSize], err |-> ""]

\* addPoint(vector, label): a stored label is overwritten in place (and
\* un-deleted); a new label needs a vector of the right length and room
addPoint(h, embedding, label) ==
    IF Len(embedding) # h.dim
    THEN [h |-> h, err |-> "InvalidArrayLength"]
    ELSE IF label \in DOMAIN h.points
    THEN [h |-> [h EXCEPT !.points[label] = embedding, !.deleted = @ \ {label}],
          err |-> ""]
    ELSE IF getCurrentCount(h) >= h.maxElements
    THEN [h |-> h, err |-> "CapacityExceeded"]
    ELSE [h |-> [h EXCEPT !.points = (label :> embedding) @@ @], err |-> ""]

\* markDelete(label): tombstones a stored, not yet deleted label
markDelete(h, label) ==
    IF label \notin DOMAIN h.points \/ label \in h.deleted
    THEN [h |-> h, err |-> "LabelNotFound"]
    ELSE [h |-> [h EXCEPT !.deleted = @ \cup {label}], err |-> ""]

(***************************************************************************)
(* DbIndex.  An object is the record of its fields; every method takes the *)
(* object o and the disk d and returns both as the call leaves them, with  *)
(* the error it threw (err, "" when it returned) and, for the history, the *)
(* <<id, label>> pairs it put into idToLabel (log).                        *)
(***************************************************************************)
UndefinedFolder == <<"undefined">>

\* `${this._saveFolder}/index_${this.indexConfig.id}.bin`
indexSavePath(o) == [folder |-> o.saveFolder, file |-> o.indexConfig.id]

\* save(): creates the folder, then writes the whole structure
save(o, d) ==
    LET d1 == IF o.saveFolder \in d.dirs THEN d
              ELSE [d EXCEPT !.dirs = @ \cup {o.saveFolder}]
    IN  IF o.index.null THEN d1
        ELSE [d1 EXCEPT !.files = (indexSavePath(o) :> o.index) @@ @]

\* load(): reads the structure back when the snapshot file exists
load(o, d) ==
    IF indexSavePath(o) \notin DOMAIN d.files THEN o
    ELSE [o EXCEPT !.index = d.files[indexSavePath(o)]]

\* constructor: empty fields, _saveFolder not yet assigned, then load()
constructor(indexConfig, d) ==
    load([indexConfig |-> indexConfig, index |-> NullIndex,
          indexMetadata |-> NullMetadata, saveFolder |-> UndefinedFolder,
          idToLabel |-> EmptyMap, labelToId |-> EmptyMap], d)

\* initIndex(): a new structure at maxElements ?? DEFAULT, elements = 0, save
initIndex(o, d) ==
    LET cfg == o.indexConfig
        cap == IF cfg.maxElements = {} THEN DEFAULT_MAX_ELEMENTS_IN_INDEX
               ELSE CHOOSE n \in cfg.maxElements : TRUE
        o1 == [o EXCEPT !.index = HierarchicalNSW(cfg.numberOfDimensions, cap),
                        !.indexMetadata = [null |-> FALSE, elements |-> 0],
                        !.saveFolder = <<cfg.persistDirectory, "index">>]
    IN  [o |-> o1, d |-> save(o1, d)]

\* assignLabel with the label taken from the number of live ids, not from
\* the cumulative counter
assignLabelFromLiveCount(o, id) ==
    LET nextLabel == Cardinality(DOMAIN o.idToLabel) + 1
    IN  [o EXCEPT !.indexMetadata.elements = @ + 1,
                  !.idToLabel = (id :> nextLabel) @@ @,
                  !.labelToId = (nextLabel :> id) @@ @]

\* add, lines 116-122: the next counter value becomes the id's label
assignLabel(o, id) ==
    LET nextLabel == o.indexMetadata.elements + 1
    IN  [o EXCEPT !.indexMetadata.elements = nextLabel,
                  !.idToLabel = (id :> nextLabel) @@ @,
                  !.labelToId = (nextLabel :> id) @@ @]

\* assignStep that gives an id it already holds a new label in update mode
assignStepRelabelsOnUpdate(st, id, update) ==
    IF st.err # "" THEN st
    ELSE IF id \in DOMAIN st.o.idToLabel /\ ~update
    THEN [st EXCEPT !.err = "DuplicateId"]
    ELSE IF st.o.indexMetadata.null THEN [st EXCEPT !.err = "TypeError"]
    ELSE [st EXCEPT !.o = assignLabel(st.o, id),
                    !.log = Append(@, <<id, assignLabel(st.o, id).idToLabel[id]>>)]

\* assignStep that skips an id it already holds in either mode
assignStepSkipsDuplicate(st, id, update) ==
    IF st.err # "" THEN st
    ELSE IF id \in DOMAIN st.o.idToLabel THEN st
    ELSE IF st.o.indexMetadata.null THEN [st EXCEPT !.err = "TypeError"]
    ELSE [st EXCEPT !.o = assignLabel(st.o, id),
                    !.log = Append(@, <<id, assignLabel(st.o, id).idToLabel[id]>>)]

\* add, lines 110-122: one pass of the first loop
assignStep(st, id, update) ==
    IF st.err # "" THEN st
    ELSE IF id \in DOMAIN st.o.idToLabel
    THEN IF update THEN st ELSE [st EXCEPT !.err = "DuplicateId"]
    ELSE IF st.o.indexMetadata.null THEN [st EXCEPT !.err = "TypeError"]
    ELSE [st EXCEPT !.o = assignLabel(st.o, id),
                    !.log = Append(@, <<id, assignLabel(st.o, id).idToLabel[id]>>)]

\* add, lines 109-123: the first loop over indexData[lo..hi], in order
RECURSIVE assignLabels(_, _, _, _, _)
assignLabels(st, indexData, update, lo, hi) ==
    IF lo > hi THEN st
    ELSE IF lo = hi THEN assignStep(st, indexData[lo].id, update)
    ELSE LET mid == (lo + hi) \div 2
             left == assignLabels(st, indexData, update, lo, mid)
         IN  IF left.err # "" THEN left
             ELSE assignLabels(left, indexData, update, mid + 1, hi)

\* add, lines 125-131: resize when the counter is ahead of the stored points
newSize(o) ==
    Max((o.indexMetadata.elements * o.indexConfig.indexResizeFactor.num)
            \div o.indexConfig.indexResizeFactor.den,
        DEFAULT_MAX_ELEMENTS_IN_INDEX)

resizeStep(st) ==
    IF st.err # "" THEN st
    ELSE IF st.o.indexMetadata.elements > getCurrentCount(st.o.index)
    THEN LET r == resizeIndex(st.o.index, newSize(st.o))
         IN  [st EXCEPT !.o.index = r.h, !.err = r.err]
    ELSE st

\* add, line 134: one pass of the second loop
addPointStep(st, rec) ==
    IF st.err # "" THEN st
    ELSE LET r == addPoint(st.o.index, rec.embedding, st.o.idToLabel[rec.id])
         IN  [st EXCEPT !.o.index = r.h, !.err = r.err]

\* add, lines 133-135: the second loop over indexData[lo..hi], in order
RECURSIVE addPoints(_, _, _, _)
addPoints(st, indexData, lo, hi) ==
    IF lo > hi THEN st
    ELSE IF lo = hi THEN addPointStep(st, indexData[lo])
    ELSE LET mid == (lo + hi) \div 2
             left == addPoints(st, indexData, lo, mid)
         IN  IF left.err # "" THEN left
             ELSE addPoints(left, indexData, mid + 1, hi)

\* add, lines 103-107: only the first record's length is compared
checkDimension(st, indexData) ==
    IF Len(indexData[1].embedding) # st.o.index.dim
    THEN [st EXCEPT !.err = "DimensionMismatch"]
    ELSE st

\* saveStep that returns without writing the snapshot
saveStepSkipsWrite(st) == st

\* add, line 137
saveStep(st) == IF st.err # "" THEN st ELSE [st EXCEPT !.d = save(st.o, st.d)]

\* add(indexData, update)
add(o, d, indexData, update) ==
    LET s0 == IF o.index.null THEN initIndex(o, d) ELSE [o |-> o, d |-> d]
        s1 == checkDimension([o |-> s0.o, d |-> s0.d, err |-> "", log |-> <<>>],
                             indexData)
        s2 == assignLabels(s1, indexData, update, 1, Len(indexData))
        s3 == resizeStep(s2)
        s4 == addPoints(s3, indexData, 1, Len(indexData))
    IN  saveStep(s4)

\* deleteStep that leaves the labelToId entry behind
deleteStepKeepsLabelToId(st, id) ==
    IF st.err # "" THEN st
    ELSE IF st.o.index.null THEN [st EXCEPT !.err = "TypeError"]
    ELSE IF id \notin DOMAIN st.o.idToLabel
    THEN [st EXCEPT !.err = "InvalidLabelArgument"]
    ELSE LET label == st.o.idToLabel[id]
             r == markDelete(st.o.index, label)
         IN  IF r.err # "" THEN [st EXCEPT !.err = r.err]
             ELSE [st EXCEPT !.o.index = r.h,
                             !.o.idToLabel = Remove(@, id)]

\* deleteStep that only forgets the id: no tombstone, labelToId kept
deleteStepForgetsIdOnly(st, id) ==
    IF st.err # "" THEN st
    ELSE IF st.o.index.null THEN [st EXCEPT !.err = "TypeError"]
    ELSE IF id \notin DOMAIN st.o.idToLabel
    THEN [st EXCEPT !.err = "InvalidLabelArgument"]
    ELSE [st EXCEPT !.o.idToLabel = Remove(@, id)]

\* delete, lines 142-146: one pass of the loop
deleteStep(st, id) ==
    IF st.err # "" THEN st
    ELSE IF st.o.index.null THEN [st EXCEPT !.err = "TypeError"]
    ELSE IF id \notin DOMAIN st.o.idToLabel
    THEN [st EXCEPT !.err = "InvalidLabelArgument"]
    ELSE LET label == st.o.idToLabel[id]
             r == markDelete(st.o.index, label)
         IN  IF r.err # "" THEN [st EXCEPT !.err = r.err]
             ELSE [st EXCEPT !.o.index = r.h,
                             !.o.labelToId = Remove(@, label),
                             !.o.idToLabel = Remove(@, id)]

\* delete, lines 141-147: the loop over ids[lo..hi], in order
RECURSIVE deleteLoop(_, _, _, _)
deleteLoop(st, ids, lo, hi) ==
    IF lo > hi THEN st
    ELSE IF lo = hi THEN deleteStep(st, ids[lo])
    ELSE LET mid == (lo + hi) \div 2
             left == deleteLoop(st, ids, lo, mid)
         IN  IF left.err # "" THEN left
             ELSE deleteLoop(left, ids, mid + 1, hi)

\* delete(ids)
delete(o, d, ids) ==
    saveStep(deleteLoop([o |-> o, d |-> d, err |-> "", log |-> <<>>],
                        ids, 1, Len(ids)))

\* rmdirSync(path): removes an empty directory
rmdirSync(d, folder) ==
    IF folder \notin d.dirs THEN [d |-> d, err |-> "ENOENT"]
    ELSE IF \E p \in DOMAIN d.files : p.folder = folder
    THEN [d |-> d, err |-> "ENOTEMPTY"]
    ELSE [d |-> [d EXCEPT !.dirs = @ \ {folder}], err |-> ""]

\* dropIndex(): removes the save folder when there is a structure, then
\* forgets the structure and both maps
dropIndex(o, d) ==
    LET r == IF o.index.null THEN [d |-> d, err |-> ""]
             ELSE rmdirSync(d, o.saveFolder)
    IN  IF r.err # "" THEN [o |-> o, d |-> d, err |-> r.err, log |-> <<>>]
        ELSE [o |-> [o EXCEPT !.index = NullIndex,
                              !.idToLabel = EmptyMap,
                              !.labelToId = EmptyMap],
              d |-> r.d, err |-> "", log |-> <<>>]

(***************************************************************************)
(* search.  The id filter is an array in the program; only its set of ids  *)
(* and whether it is empty matter, so it is a set here.                    *)
(***************************************************************************)
\* search, lines 175-179: the Set of labels; an id the map does not hold adds
\* the one value `undefined`
filterLabels(o, ids) == {o.idToLabel[id] : id \in ids \cap DOMAIN o.idToLabel}

filterSize(o, ids) ==
    Cardinality(filterLabels(o, ids))
        + (IF ids \ DOMAIN o.idToLabel # {} THEN 1 ELSE 0)

\* search, lines 181-183: k clamped to the size of the label Set
clampK(o, k, ids) ==
    IF ids # {} /\ filterSize(o, ids) < k THEN filterSize(o, ids) ELSE k

\* the labels searchKnn may return: stored, not deleted, passing filterFn
candidates(o, ids) ==
    {l \in DOMAIN o.index.points \ o.index.deleted :
        ids = {} \/ l \in filterLabels(o, ids)}

\* searchKnn(query, k, filterFn): the (up to) k nearest candidates, nearest
\* first; which of several equally distant candidates comes first is open
searchKnn(o, query, k, ids) ==
    LET cand == candidates(o, ids)
        n == Min(k, Cardinality(cand))
        dist(l) == Distance(query, o.index.points[l])
    IN  {s \in [1..n -> cand] :
            /\ \A i, j \in 1..n : i < j => s[i] # s[j] /\ dist(s[i]) <= dist(s[j])
            /\ \A l \in cand \ Range(s) : \A i \in 1..n : dist(s[i]) <= dist(l)}

\* search, lines 196-200: a hit carries the id of its label (0 stands for
\* `undefined`), its distance and the stored vector
hit(o, query, label) ==
    [id |-> IF label \in DOMAIN o.labelToId THEN o.labelToId[label] ELSE 0,
     distance |-> Distance(query, o.index.points[label]),
     embedding |-> o.index.points[label]]

\* search, line 201: Array.prototype.sort by distance, which is stable
RECURSIVE insertByDistance(_, _)
insertByDistance(sorted, h) ==
    IF sorted = <<>> THEN <<h>>
    ELSE IF sorted[Len(sorted)].distance <= h.distance THEN Append(sorted, h)
    ELSE Append(insertByDistance(SubSeq(sorted, 1, Len(sorted) - 1), h),
                sorted[Len(sorted)])

RECURSIVE sortByDistance(_)
sortByDistance(hits) ==
    IF hits = <<>> THEN <<>>
    ELSE insertByDistance(sortByDistance(SubSeq(hits, 1, Len(hits) - 1)),
                          hits[Len(hits)])

\* search(query, k, ids): the set of outcomes the call can have
search(o, query, k, ids) ==
    IF o.index.null THEN {[err |-> "InvalidIndexState", hits |-> <<>>]}
    ELSE IF Len(query) # o.index.dim
    THEN {[err |-> "DimensionMismatch", hits |-> <<>>]}
    ELSE IF o.indexMetadata.null THEN {[err |-> "TypeError", hits |-> <<>>]}
    ELSE IF k > o.indexMetadata.elements
    THEN {[err |-> "RequestedCountExceedsAvailable", hits |-> <<>>]}
    ELSE {[err |-> "",
           hits |-> sortByDistance([i \in DOMAIN s |-> hit(o, query, s[i])])] :
            s \in searchKnn(o, query, clampK(o, k, ids), ids)}

(***************************************************************************)
(* SqliteDb.  The object is the record of its database (the rows of the    *)
(* collections and embeddings tables of the file it opens) and of its      *)
(* _indexCache field.  A method takes the object s and the disk d and      *)
(* returns both as the call leaves them, the error it threw (err) and the  *)
(* value it returned (rows, hits).  A row's metadata column is kept        *)
(* decoded; its embedding column is the text the program wrote, tagged by  *)
(* the conversion that produced it.  Of the predicates of `where`,         *)
(* documentId and embeddingIds are modelled; an optional value is a set,   *)
(* empty when it is left out.                                              *)
(***************************************************************************)
CollectionNames == {"docs", "notes"}

\* ids of collection rows: one that reads like a name, one generated
CollectionIds == {"docs", "c7"}

\* the id shortUUID.generate() gives a new collection
NewCollectionIds == {"u1"}

DocumentIds == {"d1", "d2"}

CollectionRowMetadata ==
    [numberOfDimensions |-> 2, maxElements |-> {},
     indexResizeFactor |-> [num |-> 1, den |-> 1]]

CollectionRow ==
    [id : CollectionIds \cup NewCollectionIds, name : CollectionNames,
     metadata : {CollectionRowMetadata}]

\* embedding.toString() and JSON.stringify(embedding)
toString(embedding) == [text |-> "csv", numbers |-> embedding]

Stringify(embedding) == [text |-> "json", numbers |-> embedding]

EmbeddingRow ==
    [id : Ids, collectionId : CollectionIds, embedding : {toString(<<1, 0>>)},
     documentId : DocumentIds]

UndefinedCache == [undefined |-> TRUE]

\* a database file as the constructor finds it: a new one has no tables, one
\* written before holds the rows it was left with
NewDatabase == [hasCollections |-> FALSE, collections |-> {}, embeddings |-> {}]

DatabaseFiles ==
    {NewDatabase} \cup
    [hasCollections : {TRUE},
     collections : {cs \in SUBSET {c \in CollectionRow : c.id \in CollectionIds} :
                        \A c1, c2 \in cs :
                            (c1.id = c2.id \/ c1.name = c2.name) => c1 = c2},
     embeddings : {es \in SUBSET EmbeddingRow :
                        \A e1, e2 \in es : e1.id = e2.id => e1 = e2}]

DbConfig == [persistDirectory |-> "data", dbName |-> "chroma"]

\* constructor: opens the file; setupCollectionsTable's statement has a comma
\* before its closing parenthesis and creates nothing, setupEmbeddingsTable
\* creates its table when the file has none; _indexCache is given no value
SqliteDb(dbConfig, file) ==
    [dbConfig |-> dbConfig,
     hasCollections |-> file.hasCollections,
     collections |-> file.collections,
     embeddings |-> file.embeddings,
     indexCache |-> UndefinedCache]

\* the index of a collection id in _indexCache: the entry, or none
cached(s, collectionId) ==
    IF collectionId \in DOMAIN s.indexCache.entries
    THEN {s.indexCache.entries[collectionId]} ELSE {}

\* getCollectionById: where("id", collectionId).first()
getCollectionById(s, collectionId) ==
    IF ~s.hasCollections THEN [err |-> "NoSuchTable", rows |-> {}]
    ELSE [err |-> "", rows |-> {c \in s.collections : c.id = collectionId}]

\* getCollectionByName: where("id", collectionName).first()
getCollectionByName(s, collectionName) ==
    IF ~s.hasCollections THEN [err |-> "NoSuchTable", rows |-> {}]
    ELSE [err |-> "", rows |-> {c \in s.collections : c.id = collectionName}]

\* getEmbeddingById: where("id", embeddingId).first()
getEmbeddingById(s, embeddingId) == {e \in s.embeddings : e.id = embeddingId}

Outcome(s, d, err, rows, hits) ==
    [s |-> s, d |-> d, err |-> err, rows |-> rows, hits |-> hits]

\* createIndexForCollection(collectionId)
createIndexForCollection(s, d, collectionId) ==
    IF s.indexCache.undefined THEN Outcome(s, d, "TypeError", {}, <<>>)
    ELSE IF cached(s, collectionId) # {} THEN Outcome(s, d, "", {}, <<>>)
    ELSE LET found == getCollectionById(s, collectionId)
         IN  IF found.err # "" THEN Outcome(s, d, found.err, {}, <<>>)
             ELSE IF found.rows = {} THEN Outcome(s, d, "NotFound", {}, <<>>)
             ELSE LET collectionRow == CHOOSE c \in found.rows : TRUE
                      decodedMetadata == collectionRow.metadata
                      index == constructor(
                          [id |-> collectionId,
                           persistDirectory |-> s.dbConfig.persistDirectory,
                           numberOfDimensions |-> decodedMetadata.numberOfDimensions,
                           maxElements |-> decodedMetadata.maxElements,
                           indexResizeFactor |-> decodedMetadata.indexResizeFactor],
                          d)
                  IN  Outcome([s EXCEPT !.indexCache.entries =
                                            (collectionId :> index) @@ @],
                              d, "", {}, <<>>)

\* createCollection(name, metadata, getOrCreate): the outcomes of the call.
\* The insert of line 115 goes through the imported knex factory, not
\* through this._knex: it writes no row to the database of this object, and
\* whether it rejects is up to the library.
createCollection(s, d, name, metadata, getOrCreate) ==
    LET existingCollection == getCollectionByName(s, name)
    IN  IF existingCollection.err # ""
        THEN {Outcome(s, d, existingCollection.err, {}, <<>>)}
        ELSE IF existingCollection.rows # {}
        THEN IF getOrCreate
             THEN {Outcome(s, d, "", existingCollection.rows, <<>>)}
             ELSE {Outcome(s, d, "AlreadyExists", {}, <<>>)}
        ELSE {Outcome(s, d, "KnexError", {}, <<>>)}
             \cup
             {LET dataToInsert == [id |-> id, name |-> name, metadata |-> metadata]
                  r == createIndexForCollection(s, d, id)
              IN  IF r.err # "" THEN r
                  ELSE Outcome(r.s, r.d, "", {dataToInsert}, <<>>) :
                id \in NewCollectionIds}

\* the update of lines 152-155: it names no row, so it sets the name and the
\* metadata of every row of the table
updateCollectionRows(collections, newName, newMetadata) ==
    {[c EXCEPT !.name = newName, !.metadata = newMetadata] : c \in collections}

\* the table's "name TEXT NOT NULL UNIQUE": the rows a statement may leave
uniqueNames(collections) ==
    \A c1, c2 \in collections : c1.name = c2.name => c1 = c2

\* updateCollection(currentName, newName, newMetadata); a name or a metadata
\* left out is the empty set
updateCollection(s, d, currentName, newName, newMetadata) ==
    LET found == getCollectionByName(s, currentName)
    IN  IF found.err # "" THEN Outcome(s, d, found.err, {}, <<>>)
        ELSE IF found.rows = {} THEN Outcome(s, d, "NotFound", {}, <<>>)
        ELSE LET currentCollection == CHOOSE c \in found.rows : TRUE
                 name == IF newName = {} THEN currentName
                         ELSE CHOOSE n \in newName : TRUE
                 metadata == IF newMetadata = {} THEN currentCollection.metadata
                             ELSE CHOOSE m \in newMetadata : TRUE
                 updated == updateCollectionRows(s.collections, name, metadata)
             IN  IF ~uniqueNames(updated)
                 THEN Outcome(s, d, "SqliteConstraint", {}, <<>>)
                 ELSE Outcome([s EXCEPT !.collections = updated], d, "", {}, <<>>)

\* the object with the index of a collection id as a call on it left it
withIndex(s, collectionId, o) ==
    [s EXCEPT !.indexCache.entries[collectionId] = o]

\* addEmbeddingToCollection(input); newId is the id shortUUID.generate() gives
addEmbeddingToCollection(s, d, input, newId) ==
    LET found == getCollectionByName(s, input.collectionName)
    IN  IF found.err # "" THEN Outcome(s, d, found.err, {}, <<>>)
        ELSE IF found.rows = {} THEN Outcome(s, d, "NotFound", {}, <<>>)
        ELSE LET collection == CHOOSE c \in found.rows : TRUE
                 dataToInsert == [id |-> newId, collectionId |-> collection.id,
                                  embedding |-> toString(input.embedding),
                                  documentId |-> input.documentId]
             IN  IF s.indexCache.undefined
                 THEN Outcome(s, d, "TypeError", {}, <<>>)
                 ELSE IF cached(s, collection.id) = {}
                 THEN Outcome(s, d, "InvalidIndexState", {}, <<>>)
                 ELSE LET index == CHOOSE o \in cached(s, collection.id) : TRUE
                          r == add(index, d,
                                   <<[id |-> newId, embedding |-> input.embedding]>>,
                                   FALSE)
                          s1 == withIndex(s, collection.id, r.o)
                      IN  IF r.err # "" THEN Outcome(s1, r.d, r.err, {}, <<>>)
                          ELSE IF getEmbeddingById(s, newId) # {}
                          THEN Outcome(s1, r.d, "SqliteConstraint", {}, <<>>)
                          ELSE Outcome([s1 EXCEPT !.embeddings = @ \cup {dataToInsert}],
                                       r.d, "", {dataToInsert}, <<>>)

\* the update of lines 239-249: it names no row, so it rewrites every row of
\* the table
updateRows(embeddings, input) ==
    {[e EXCEPT !.documentId = input.documentId,
               !.embedding = Stringify(input.embedding)] : e \in embeddings}

\* updateEmbedding(input), input.embeddingId the row to update
updateEmbedding(s, d, input) ==
    LET found == getCollectionByName(s, input.collectionName)
        embeddingFromDb == getEmbeddingById(s, input.embeddingId)
    IN  IF found.err # "" THEN Outcome(s, d, found.err, {}, <<>>)
        ELSE IF found.rows = {} THEN Outcome(s, d, "NotFound", {}, <<>>)
        ELSE IF embeddingFromDb = {} THEN Outcome(s, d, "NotFound", {}, <<>>)
        ELSE LET collection == CHOOSE c \in found.rows : TRUE
                 row == CHOOSE e \in embeddingFromDb : TRUE
             IN  IF row.collectionId # collection.id
                 THEN Outcome(s, d, "OwnershipMismatch", {}, <<>>)
                 ELSE IF s.indexCache.undefined \/ cached(s, collection.id) = {}
                 THEN Outcome(s, d, "TypeError", {}, <<>>)
                 ELSE LET index == CHOOSE o \in cached(s, collection.id) : TRUE
                          r == add(index, d,
                                   <<[id |-> input.embeddingId,
                                      embedding |-> input.embedding]>>,
                                   TRUE)
                          s1 == withIndex(s, collection.id, r.o)
                      IN  IF r.err # "" THEN Outcome(s1, r.d, r.err, {}, <<>>)
                          ELSE Outcome([s1 EXCEPT !.embeddings = updateRows(@, input)],
                                       r.d, "", {}, <<>>)

\* deleteEmbedding(collectionName, embeddingId)
deleteEmbedding(s, d, collectionName, embeddingId) ==
    LET found == getCollectionByName(s, collectionName)
        embeddingFromDb == getEmbeddingById(s, embeddingId)
    IN  IF found.err # "" THEN Outcome(s, d, found.err, {}, <<>>)
        ELSE IF found.rows = {} THEN Outcome(s, d, "NotFound", {}, <<>>)
        ELSE IF embeddingFromDb = {} THEN Outcome(s, d, "NotFound", {}, <<>>)
        ELSE LET collection == CHOOSE c \in found.rows : TRUE
                 row == CHOOSE e \in embeddingFromDb : TRUE
             IN  IF row.collectionId # collection.id
                 THEN Outcome(s, d, "OwnershipMismatch", {}, <<>>)
                 ELSE IF s.indexCache.undefined \/ cached(s, collection.id) = {}
                 THEN Outcome(s, d, "TypeError", {}, <<>>)
                 ELSE LET index == CHOOSE o \in cached(s, collection.id) : TRUE
                          r == delete(index, d, <<embeddingId>>)
                          s1 == withIndex(s, collection.id, r.o)
                      IN  IF r.err # "" THEN Outcome(s1, r.d, r.err, {}, <<>>)
                          ELSE Outcome([s1 EXCEPT !.embeddings =
                                            {e \in @ : e.id # embeddingId}],
                                       r.d, "", {}, <<>>)

\* get(queryInput): the rows of the embeddings table that pass the
\* predicates of `where` that are present
get(s, d, queryInput) ==
    LET found == getCollectionByName(s, queryInput.collectionName)
        where == queryInput.where
    IN  IF found.err # "" THEN Outcome(s, d, found.err, {}, <<>>)
        ELSE IF found.rows = {} THEN Outcome(s, d, "NotFound", {}, <<>>)
        ELSE Outcome(s, d, "",
                     {e \in s.embeddings :
                        /\ where.documentId # {} => e.documentId \in where.documentId
                        /\ where.embeddingIds # {} => e.id \in where.embeddingIds},
                     <<>>)

\* getNearestNeighbors, lines 305-313: each hit with the documentId of its row
hydrate(s, hits) ==
    [i \in DOMAIN hits |->
        [id |-> hits[i].id, distance |-> hits[i].distance,
         embedding |-> hits[i].embedding,
         documentId |-> (CHOOSE e \in getEmbeddingById(s, hits[i].id) : TRUE).documentId]]

\* getNearestNeighbors(queryInput): the outcomes of the call
getNearestNeighbors(s, d, queryInput) ==
    LET found == getCollectionByName(s, queryInput.collectionName)
        candidates0 == get(s, d, queryInput)
    IN  IF found.err # "" THEN {Outcome(s, d, found.err, {}, <<>>)}
        ELSE IF found.rows = {} THEN {Outcome(s, d, "NotFound", {}, <<>>)}
        ELSE IF candidates0.err # "" THEN {candidates0}
        ELSE LET collection == CHOOSE c \in found.rows : TRUE
                 embeddingIds == {e.id : e \in candidates0.rows}
             IN  IF s.indexCache.undefined \/ cached(s, collection.id) = {}
                 THEN {Outcome(s, d, "TypeError", {}, <<>>)}
                 ELSE LET index == CHOOSE o \in cached(s, collection.id) : TRUE
                      IN  {IF r.err # "" THEN Outcome(s, d, r.err, {}, <<>>)
                           ELSE IF \E i \in DOMAIN r.hits :
                                      getEmbeddingById(s, r.hits[i].id) = {}
                           THEN Outcome(s, d, "TypeError", {}, <<>>)
                           ELSE Outcome(s, d, "", {}, hydrate(s, r.hits)) :
                             r \in search(index, queryInput.searchEmbedding,
                                          queryInput.nearestNeighbors, embeddingIds)}

\* dropCollectionIndex(collectionId)
dropCollectionIndex(s, d, collectionId) ==
    IF s.indexCache.undefined THEN Outcome(s, d, "TypeError", {}, <<>>)
    ELSE IF cached(s, collectionId) = {} THEN Outcome(s, d, "", {}, <<>>)
    ELSE LET index == CHOOSE o \in cached(s, collectionId) : TRUE
             r == dropIndex(index, d)
         IN  IF r.err # ""
             THEN Outcome(withIndex(s, collectionId, r.o), r.d, r.err, {}, <<>>)
             ELSE Outcome([s EXCEPT !.indexCache.entries =
                               Remove(@, collectionId)],
                          r.d, "", {}, <<>>)

(***************************************************************************)
(* The state machine: one DbIndex, called sequentially.  `result` keeps of *)
(* the last call its name, the error it threw, the update flag and the     *)
(* pairs it assigned (add), and the hits it returned (search).             *)
(***************************************************************************)
EmptyDisk == [dirs |-> {}, files |-> EmptyMap]

Result(op, err, update, assigned, hits) ==
    [op |-> op, err |-> err, update |-> update, assigned |-> assigned,
     hits |-> hits]

\* the index configurations of Spec: the defaults, and a capacity hint with
\* a resize factor below 1
SmallConfigs ==
    {cfg \in IndexConfigs :
        \/ cfg.maxElements = {} /\ cfg.indexResizeFactor = [num |-> 1, den |-> 1]
        \/ cfg.maxElements # {} /\ cfg.indexResizeFactor = [num |-> 1, den |-> 2]}

\* a call in flight: the await it stopped at (pc), what it was called with,
\* the labels it has assigned and the structure as its write began
Idle ==
    [pc |-> "idle", op |-> "", indexData |-> <<>>, update |-> FALSE,
     log |-> <<>>, image |-> NullIndex]

Calls == 1..MaxInFlight

\* no call in flight, initIndex not yet run
NoCalls == [pending |-> [t \in Calls |-> Idle], inits |-> 0]

InitWith(configs) ==
    /\ dbIndex \in {constructor(cfg, EmptyDisk) : cfg \in configs}
    /\ disk = EmptyDisk
    /\ result = Result("new", "", FALSE, <<>>, <<>>)
    /\ assignLog = <<>>
    /\ sqliteDb = SqliteDb(DbConfig, NewDatabase)
    /\ calls = NoCalls

Init == InitWith(SmallConfigs)

\* the number of labels the calls may hand out in all
LabelBudget ==
    IF Len(assignLog) >= DEFAULT_MAX_ELEMENTS_IN_INDEX
    THEN DEFAULT_MAX_ELEMENTS_IN_INDEX + MaxLabels
    ELSE MaxLabels

\* addVectors(indexData, update), for the batches of a given set
AddWith(batches) ==
    \E indexData \in batches, update \in BOOLEAN :
        LET r == add(dbIndex, disk, indexData, update)
        IN  /\ Len(assignLog) + Len(r.log) <= LabelBudget
            /\ dbIndex' = r.o
            /\ disk' = r.d
            /\ result' = Result("add", r.err, update, r.log, <<>>)
            /\ assignLog' = assignLog \o r.log
            /\ UNCHANGED <<sqliteDb, calls>>

AddVectors == AddWith(Batches)

\* deleteVectors(ids)
DeleteVectors ==
    \E ids \in IdLists :
        LET r == delete(dbIndex, disk, ids)
        IN  /\ dbIndex' = r.o
            /\ disk' = r.d
            /\ result' = Result("delete", r.err, FALSE, <<>>, <<>>)
            /\ UNCHANGED <<assignLog, sqliteDb, calls>>

\* search(query, k, ids)
Search ==
    \E query \in Queries, k \in 1..MaxK, ids \in SUBSET Ids :
        \E r \in search(dbIndex, query, k, ids) :
            /\ result' = Result("search", r.err, FALSE, <<>>, r.hits)
            /\ UNCHANGED <<dbIndex, disk, assignLog, sqliteDb, calls>>

Next == AddVectors \/ DeleteVectors \/ Search

Spec == Init /\ [][Next]_vars

(***************************************************************************)
(* Growth.  A first call that fills the structure to its default capacity: *)
(* addVectors of DEFAULT_MAX_ELEMENTS_IN_INDEX records with ids of their   *)
(* own, followed by deleteVectors of those ids, taken as one step.  The    *)
(* calls that follow name the ids of Ids, one record at a time.            *)
(***************************************************************************)
BulkBatch ==
    [i \in 1..DEFAULT_MAX_ELEMENTS_IN_INDEX |->
        [id |-> NumIds + i, embedding |-> <<1, 0>>]]

BulkIds == [i \in 1..DEFAULT_MAX_ELEMENTS_IN_INDEX |-> NumIds + i]

BulkLoad ==
    /\ dbIndex.index.null
    /\ LET a == add(dbIndex, disk, BulkBatch, FALSE)
           r == delete(a.o, a.d, BulkIds)
       IN  /\ dbIndex' = r.o
           /\ disk' = r.d
           /\ result' = Result("delete", r.err, FALSE, <<>>, <<>>)
           /\ assignLog' = assignLog \o a.log
           /\ UNCHANGED <<sqliteDb, calls>>

SingleBatches == {b \in Batches : Len(b) = 1}

AddOne == AddWith(SingleBatches)

InitGrow == InitWith(IndexConfigs)

NextGrow == BulkLoad \/ AddOne \/ DeleteVectors \/ Search

SpecGrow == InitGrow /\ [][NextGrow]_vars

(***************************************************************************)
(* Restart.  A new DbIndex is constructed for the same configuration over  *)
(* the disk as the calls so far left it; it replaces the instance.         *)
(***************************************************************************)
Reload ==
    /\ dbIndex' = constructor(dbIndex.indexConfig, disk)
    /\ result' = Result("reload", "", FALSE, <<>>, <<>>)
    /\ assignLog' = <<>>
    /\ UNCHANGED <<disk, sqliteDb, calls>>

NextReload == AddVectors \/ DeleteVectors \/ Search \/ Reload

SpecReload == Init /\ [][NextReload]_vars

(***************************************************************************)
(* Teardown.  dropIndex() is called on the instance between the other      *)
(* calls.                                                                  *)
(***************************************************************************)
DropIndex ==
    LET r == dropIndex(dbIndex, disk)
    IN  /\ dbIndex' = r.o
        /\ disk' = r.d
        /\ result' = Result("dropIndex", r.err, FALSE, <<>>, <<>>)
        /\ UNCHANGED <<assignLog, sqliteDb, calls>>

NextDrop == AddVectors \/ DeleteVectors \/ Search \/ DropIndex

SpecDrop == Init /\ [][NextDrop]_vars

(***************************************************************************)
(* Calls in flight.  add and delete are async functions of a               *)
(* single-threaded runtime: a call runs without interruption from one      *)
(* await to the next, and other calls run while it waits.  The awaits are  *)
(* the writeIndex of save(), reached from initIndex (line 54) and from the *)
(* end of add and delete (lines 137, 149); a call that finds the           *)
(* structure present runs from its first statement to that write in one    *)
(* piece.  writeIndex serializes the structure off the main thread while   *)
(* other calls go on changing it, with no synchronization: the file holds  *)
(* the structure as it was when the write began or as it is when the write *)
(* completes.                                                              *)
(***************************************************************************)
\* save(), lines 58-60: the folder is made before the write is awaited
saveBegin(o, d) ==
    IF o.saveFolder \in d.dirs THEN d ELSE [d EXCEPT !.dirs = @ \cup {o.saveFolder}]

\* save(), line 67: the write completes with one image of the structure
writeIndex(o, d, image) ==
    [d EXCEPT !.files = (indexSavePath(o) :> image) @@ @]

\* initIndex(), lines 35-54, up to the await of its save()
initIndexBegin(o, d) ==
    LET cfg == o.indexConfig
        cap == IF cfg.maxElements = {} THEN DEFAULT_MAX_ELEMENTS_IN_INDEX
               ELSE CHOOSE n \in cfg.maxElements : TRUE
        o1 == [o EXCEPT !.index = HierarchicalNSW(cfg.numberOfDimensions, cap),
                        !.indexMetadata = [null |-> FALSE, elements |-> 0],
                        !.saveFolder = <<cfg.persistDirectory, "index">>]
    IN  [o |-> o1, d |-> saveBegin(o1, d)]

\* initIndexEnd that assigns the fields of the object after the await, over
\* what other calls did meanwhile
initIndexEndAssignsFields(o, d, image) ==
    [o |-> initIndexBegin(o, d).o, d |-> writeIndex(o, d, image)]

\* initIndex(), line 54 on: the write is done, the object is as the calls
\* that ran meanwhile left it
initIndexEnd(o, d, image) ==
    [o |-> o, d |-> writeIndex(o, d, image)]

\* add, lines 103-135: from the dimension check to the last addPoint
addSync(o, d, indexData, update) ==
    LET s1 == checkDimension([o |-> o, d |-> d, err |-> "", log |-> <<>>],
                             indexData)
        s2 == assignLabels(s1, indexData, update, 1, Len(indexData))
        s3 == resizeStep(s2)
    IN  addPoints(s3, indexData, 1, Len(indexData))

\* the batches of the calls in flight: one vector of the index's length, one
\* of another length
InFlightBatches ==
    {b \in Batches : \A i \in 1..Len(b) : b[i].embedding \in {<<1, 0>>, <<1>>}}

\* a new call takes the first slot that holds no call
FreeSlot ==
    IF \E t \in Calls : calls.pending[t].pc = "idle"
    THEN CHOOSE t \in Calls :
             /\ calls.pending[t].pc = "idle"
             /\ \A u \in Calls : u < t => calls.pending[u].pc # "idle"
    ELSE 0

\* call t threw: it is over, with what it did to the object
Thrown(t, op, st, update) ==
    /\ disk' = st.d
    /\ result' = Result(op, st.err, update, st.log, <<>>)
    /\ calls' = [calls EXCEPT !.pending[t] = Idle]

\* call t reached the save() of its last line and awaits the write
AwaitSave(t, op, st, update) ==
    /\ disk' = saveBegin(st.o, st.d)
    /\ calls' = [calls EXCEPT !.pending[t] =
                     [pc |-> "save", op |-> op, indexData |-> <<>>,
                      update |-> update, log |-> st.log, image |-> st.o.index]]
    /\ UNCHANGED result

\* call t runs add from line 103 to the await of line 137
RunAdd(t, o, d, indexData, update) ==
    LET st == addSync(o, d, indexData, update)
    IN  /\ Len(assignLog) + Len(st.log) <= LabelBudget
        /\ dbIndex' = st.o
        /\ assignLog' = assignLog \o st.log
        /\ UNCHANGED sqliteDb
        /\ IF st.err # "" THEN Thrown(t, "add", st, update)
           ELSE AwaitSave(t, "add", st, update)

\* addVectors(indexData, update) is called: with no structure it runs
\* initIndex up to its await, else it runs to the await of its save()
StartAdd(t) ==
    /\ t = FreeSlot
    /\ \E indexData \in InFlightBatches, update \in BOOLEAN :
        IF dbIndex.index.null
        THEN LET r == initIndexBegin(dbIndex, disk)
             IN  /\ dbIndex' = r.o
                 /\ disk' = r.d
                 /\ calls' = [pending |-> [calls.pending EXCEPT ![t] =
                                  [pc |-> "initIndex", op |-> "add",
                                   indexData |-> indexData, update |-> update,
                                   log |-> <<>>, image |-> r.o.index]],
                              inits |-> calls.inits + 1]
                 /\ UNCHANGED <<result, assignLog, sqliteDb>>
        ELSE RunAdd(t, dbIndex, disk, indexData, update)

\* the write of initIndex completes and the add goes on from line 103
ResumeAdd(t) ==
    LET call == calls.pending[t]
    IN  /\ call.pc = "initIndex"
        /\ \E image \in {call.image, dbIndex.index} :
            LET r == initIndexEnd(dbIndex, disk, image)
            IN  RunAdd(t, r.o, r.d, call.indexData, call.update)

\* deleteVectors(ids) is called and runs to the await of its save()
StartDelete(t) ==
    /\ t = FreeSlot
    /\ \E ids \in IdLists :
        LET st == deleteLoop([o |-> dbIndex, d |-> disk, err |-> "", log |-> <<>>],
                             ids, 1, Len(ids))
        IN  /\ dbIndex' = st.o
            /\ UNCHANGED <<assignLog, sqliteDb>>
            /\ IF st.err # "" THEN Thrown(t, "delete", st, FALSE)
               ELSE AwaitSave(t, "delete", st, FALSE)

\* the write of the last line completes and the call returns
Return(t) ==
    LET call == calls.pending[t]
    IN  /\ call.pc = "save"
        /\ \E image \in {call.image, dbIndex.index} :
            disk' = writeIndex(dbIndex, disk, image)
        /\ result' = Result(call.op, "", call.update, call.log, <<>>)
        /\ calls' = [calls EXCEPT !.pending[t] = Idle]
        /\ UNCHANGED <<dbIndex, assignLog, sqliteDb>>

NextInFlight ==
    \E t \in Calls :
        \/ StartAdd(t)
        \/ ResumeAdd(t)
        \/ StartDelete(t)
        \/ Return(t)

InitInFlight == InitWith({cfg \in SmallConfigs : cfg.maxElements = {}})

SpecInFlight == InitInFlight /\ [][NextInFlight]_vars

(***************************************************************************)
(* The store.  One SqliteDb over the database file it finds, called        *)
(* sequentially; the DbIndex instances it uses are those of _indexCache.   *)
(***************************************************************************)
EmbeddingInputs ==
    [collectionName : CollectionNames, embedding : GoodVectors,
     documentId : DocumentIds]

UpdateInputs ==
    [collectionName : CollectionNames, embedding : GoodVectors,
     documentId : DocumentIds, embeddingId : Ids]

\* the metadata an updateCollection call may bring
OtherRowMetadata == [CollectionRowMetadata EXCEPT !.maxElements = {2000}]

NewNames == {{}} \cup {{n} : n \in CollectionNames}

NewMetadatas == {{}, {OtherRowMetadata}}

Wheres == [documentId : {{}} \cup {{x} : x \in DocumentIds}, embeddingIds : SUBSET Ids]

QueryInputs == [collectionName : CollectionNames, where : Wheres]

SearchQueryInputs ==
    [collectionName : CollectionNames, where : Wheres,
     searchEmbedding : GoodVectors, nearestNeighbors : 1..MaxK]

InitStore ==
    /\ sqliteDb \in {SqliteDb(DbConfig, file) : file \in DatabaseFiles}
    /\ dbIndex = constructor(CHOOSE cfg \in SmallConfigs : cfg.maxElements = {},
                             EmptyDisk)
    /\ disk = EmptyDisk
    /\ result = Result("new", "", FALSE, <<>>, <<>>)
    /\ assignLog = <<>>
    /\ calls = NoCalls

\* a call on the store returned or threw
Returned(op, r) ==
    /\ sqliteDb' = r.s
    /\ disk' = r.d
    /\ result' = Result(op, r.err, FALSE, <<>>, r.hits)
    /\ UNCHANGED <<dbIndex, assignLog, calls>>

CreateCollection ==
    \E name \in CollectionNames, getOrCreate \in BOOLEAN :
        \E r \in createCollection(sqliteDb, disk, name, CollectionRowMetadata,
                                  getOrCreate) :
            Returned("createCollection", r)

CreateIndexForCollection ==
    \E collectionId \in CollectionIds :
        Returned("createIndexForCollection",
                 createIndexForCollection(sqliteDb, disk, collectionId))

UpdateCollection ==
    \E currentName \in CollectionNames, newName \in NewNames,
       newMetadata \in NewMetadatas :
        Returned("updateCollection",
                 updateCollection(sqliteDb, disk, currentName, newName, newMetadata))

AddEmbeddingToCollection ==
    \E input \in EmbeddingInputs, newId \in Ids :
        /\ getEmbeddingById(sqliteDb, newId) = {}
        /\ Returned("addEmbeddingToCollection",
                    addEmbeddingToCollection(sqliteDb, disk, input, newId))

UpdateEmbedding ==
    \E input \in UpdateInputs :
        Returned("updateEmbedding", updateEmbedding(sqliteDb, disk, input))

DeleteEmbedding ==
    \E collectionName \in CollectionNames, embeddingId \in Ids :
        Returned("deleteEmbedding",
                 deleteEmbedding(sqliteDb, disk, collectionName, embeddingId))

Get ==
    \E queryInput \in QueryInputs :
        Returned("get", get(sqliteDb, disk, queryInput))

GetNearestNeighbors ==
    \E queryInput \in SearchQueryInputs :
        \E r \in getNearestNeighbors(sqliteDb, disk, queryInput) :
            Returned("getNearestNeighbors", r)

DropCollectionIndex ==
    \E collectionId \in CollectionIds :
        Returned("dropCollectionIndex",
                 dropCollectionIndex(sqliteDb, disk, collectionId))

NextStore ==
    \/ CreateCollection
    \/ CreateIndexForCollection
    \/ UpdateCollection
    \/ AddEmbeddingToCollection
    \/ UpdateEmbedding
    \/ DeleteEmbedding
    \/ Get
    \/ GetNearestNeighbors
    \/ DropCollectionIndex

SpecStore == InitStore /\ [][NextStore]_vars

(***************************************************************************)
(* Vocabulary of the properties.                                           *)
(***************************************************************************)
Initialized(o) == ~o.index.null /\ ~o.indexMetadata.null

\* an id is live when idToLabel holds it
LiveIds(o) == DOMAIN o.idToLabel

\* a live id whose label holds a stored, not deleted vector
StoredIds(o) ==
    {id \in LiveIds(o) :
        ~o.index.null /\ o.idToLabel[id] \in DOMAIN o.index.points \ o.index.deleted}

\* the ids that were given a label and are live no more: the deleted ones
RemovedIds == {assignLog[i][1] : i \in DOMAIN assignLog} \ LiveIds(dbIndex)

HitIds(hits) == {hits[i].id : i \in DOMAIN hits}

GoodQueries == {q \in Queries : Len(q) = 2}

\* batches whose vectors all have the index dimensionality
GoodBatches ==
    {b \in Batches : \A i \in DOMAIN b : b[i].embedding \in GoodVectors}

BatchIds(b) == {b[i].id : i \in DOMAIN b}

(***************************************************************************)
(* C1: after any sequence of addVectors (update or not, returning or       *)
(* throwing) and deleteVectors calls, idToLabel and labelToId are mutual   *)
(* inverses: every live id has one label, no two live ids share a label,   *)
(* and labelToId[idToLabel[id]] = id.                                      *)
(***************************************************************************)
C1_Bijection ==
    LET o == dbIndex IN
    /\ \A id \in DOMAIN o.idToLabel :
        /\ o.idToLabel[id] \in DOMAIN o.labelToId
        /\ o.labelToId[o.idToLabel[id]] = id
    /\ \A l \in DOMAIN o.labelToId :
        /\ o.labelToId[l] \in DOMAIN o.idToLabel
        /\ o.idToLabel[o.labelToId[l]] = l
    /\ \A id1, id2 \in DOMAIN o.idToLabel :
        id1 # id2 => o.idToLabel[id1] # o.idToLabel[id2]

\* two ids were given labels, one was deleted by a call that returned, and
\* the other is still mapped
C1_Witness ==
    /\ result.op = "delete" /\ result.err = ""
    /\ Len(assignLog) = 2
    /\ Cardinality(DOMAIN dbIndex.idToLabel) = 1
    /\ Cardinality(DOMAIN dbIndex.labelToId) = 1

(***************************************************************************)
(* C2: labels come from a strictly increasing counter and no label is      *)
(* assigned twice: an id that is deleted and added again gets a new label, *)
(* greater than every label assigned before, and the label it had stays    *)
(* tombstoned in the structure.                                            *)
(***************************************************************************)
C2_LabelsNeverReused ==
    /\ \A i, j \in DOMAIN assignLog : i < j => assignLog[i][2] < assignLog[j][2]
    /\ \A i \in DOMAIN assignLog :
        \/ /\ assignLog[i][2] \in DOMAIN dbIndex.labelToId
           /\ dbIndex.labelToId[assignLog[i][2]] = assignLog[i][1]
        \/ /\ assignLog[i][2] \notin DOMAIN dbIndex.labelToId
           /\ assignLog[i][2] \in dbIndex.index.deleted
    /\ \A id \in LiveIds(dbIndex) :
        \E i \in DOMAIN assignLog :
            /\ assignLog[i] = <<id, dbIndex.idToLabel[id]>>
            /\ \A j \in DOMAIN assignLog : j > i => assignLog[j][1] # id

\* id 1 got label 1, was deleted, and was added again under label 2, with
\* label 1 still a tombstone
C2_Witness ==
    /\ assignLog = <<<<1, 1>>, <<1, 2>>>>
    /\ dbIndex.idToLabel = (1 :> 2)
    /\ dbIndex.index.deleted = {1}
    /\ DOMAIN dbIndex.index.points = {1, 2}

(***************************************************************************)
(* C3: once deleteVectors has removed an id, no search, whatever its       *)
(* query, k and id filter, returns a hit with that id until the id is      *)
(* added again; and deleteVectors leaves the cumulative counter unchanged. *)
(***************************************************************************)
C3_NoRemovedIdInHits ==
    /\ \A query \in Queries, k \in 1..MaxK, ids \in SUBSET Ids :
        \A r \in search(dbIndex, query, k, ids) :
            HitIds(r.hits) \cap RemovedIds = {}
    /\ result.op = "search" => HitIds(result.hits) \cap RemovedIds = {}

C3_DeleteKeepsCounter ==
    result'.op = "delete" => dbIndex'.indexMetadata = dbIndex.indexMetadata

C3_DeletedInvisible == []C3_NoRemovedIdInHits /\ [][C3_DeleteKeepsCounter]_vars

\* a search that returned a hit while an id stands deleted, the counter
\* still counting it
C3_Witness ==
    /\ result.op = "search" /\ result.err = "" /\ result.hits # <<>>
    /\ RemovedIds # {}
    /\ dbIndex.indexMetadata.elements = 2
    /\ Cardinality(LiveIds(dbIndex)) = 1

(***************************************************************************)
(* C4: addVectors on a batch in which some record's vector length differs  *)
(* from the index dimensionality (the first record or a later one, the     *)
(* index initialized or not) fails with DimensionMismatch and mutates      *)
(* nothing: counter, both maps, stored points and the initialized status   *)
(* are as before the call.                                                 *)
(***************************************************************************)
C4_MismatchMutatesNothing ==
    \A indexData \in Batches, update \in BOOLEAN :
        (\E i \in DOMAIN indexData :
            Len(indexData[i].embedding) # dbIndex.indexConfig.numberOfDimensions)
        => LET r == add(dbIndex, disk, indexData, update)
           IN  /\ r.err = "DimensionMismatch"
               /\ r.o.indexMetadata = dbIndex.indexMetadata
               /\ r.o.idToLabel = dbIndex.idToLabel
               /\ r.o.labelToId = dbIndex.labelToId
               /\ r.o.index = dbIndex.index

(***************************************************************************)
(* C5: addVectors in update mode on ids that are live, each with a vector  *)
(* stored under its label, overwrites that vector in place: the labels are *)
(* unchanged, no label is allocated, the counter is unchanged, and every   *)
(* later search computes the id's distance from the new vector.            *)
(***************************************************************************)
LastVector(indexData, id) ==
    LET last == CHOOSE i \in DOMAIN indexData :
                    /\ indexData[i].id = id
                    /\ \A j \in DOMAIN indexData : j > i => indexData[j].id # id
    IN  indexData[last].embedding

C5_UpdateOverwritesInPlace ==
    \A indexData \in GoodBatches :
        BatchIds(indexData) \subseteq StoredIds(dbIndex)
        => LET r == add(dbIndex, disk, indexData, TRUE)
           IN  /\ r.err = ""
               /\ r.log = <<>>
               /\ r.o.idToLabel = dbIndex.idToLabel
               /\ r.o.labelToId = dbIndex.labelToId
               /\ r.o.indexMetadata = dbIndex.indexMetadata
               /\ \A id \in BatchIds(indexData) :
                    /\ r.o.index.points[r.o.idToLabel[id]] = LastVector(indexData, id)
                    /\ r.o.idToLabel[id] \notin r.o.index.deleted
                    /\ \A query \in GoodQueries, k \in 1..MaxK, ids \in SUBSET Ids :
                        \A sr \in search(r.o, query, k, ids) :
                            \A i \in DOMAIN sr.hits :
                                sr.hits[i].id = id
                                => /\ sr.hits[i].embedding = LastVector(indexData, id)
                                   /\ sr.hits[i].distance =
                                        Distance(query, LastVector(indexData, id))

\* an update-mode call that returned, allocated nothing (its ids were live)
\* and left its vector under the label the id had
C5_Witness ==
    /\ result.op = "add" /\ result.update /\ result.err = ""
    /\ result.assigned = <<>>
    /\ assignLog = <<<<1, 1>>>>
    /\ 1 \in StoredIds(dbIndex)
    /\ dbIndex.index.points[1] = <<0, 1>>
    /\ dbIndex.indexMetadata.elements = 1

(***************************************************************************)
(* C6: addVectors without update mode on a batch that holds a live id      *)
(* fails with DuplicateId, and the live id keeps its label and its stored  *)
(* vector.  (The batch passes the dimension check that precedes the loop.) *)
(***************************************************************************)
C6_DuplicateIdRejected ==
    \A indexData \in Batches :
        (/\ BatchIds(indexData) \cap LiveIds(dbIndex) # {}
         /\ Len(indexData[1].embedding) = dbIndex.indexConfig.numberOfDimensions)
        => LET r == add(dbIndex, disk, indexData, FALSE)
           IN  /\ r.err = "DuplicateId"
               /\ \A id \in LiveIds(dbIndex) :
                    /\ id \in LiveIds(r.o)
                    /\ r.o.idToLabel[id] = dbIndex.idToLabel[id]
               /\ r.o.index.points = dbIndex.index.points
               /\ r.o.index.deleted = dbIndex.index.deleted

\* a non-update call threw DuplicateId, and the id it met is still stored
C6_Witness ==
    /\ result.op = "add" /\ ~result.update /\ result.err = "DuplicateId"
    /\ StoredIds(dbIndex) # {}

(***************************************************************************)
(* C7: on an initialized index, search with an empty id filter and k       *)
(* greater than the number of live ids fails with                          *)
(* RequestedCountExceedsAvailable, also after deletions, when k is at most *)
(* the cumulative counter.                                                 *)
(***************************************************************************)
C7_KAboveLiveFails ==
    \A query \in GoodQueries, k \in 1..MaxK :
        (Initialized(dbIndex) /\ k > Cardinality(LiveIds(dbIndex)))
        => \A r \in search(dbIndex, query, k, {}) :
            r.err = "RequestedCountExceedsAvailable"

(***************************************************************************)
(* C8: on an initialized index, search with an id filter naming m live     *)
(* ids, m < k, never fails because of k: for every k >= 1, also k above    *)
(* the element counter, it returns at most m hits (stated for a filter     *)
(* that names at least one live id).                                       *)
(***************************************************************************)
C8_FilterClampsK ==
    \A query \in GoodQueries, k \in 1..MaxK, ids \in SUBSET Ids :
        (/\ Initialized(dbIndex)
         /\ ids \cap LiveIds(dbIndex) # {}
         /\ Cardinality(ids \cap LiveIds(dbIndex)) < k)
        => \A r \in search(dbIndex, query, k, ids) :
            /\ r.err = ""
            /\ Len(r.hits) <= Cardinality(ids \cap LiveIds(dbIndex))

(***************************************************************************)
(* C9: persist-then-reload round trip: a new DbIndex constructed for the   *)
(* same collection id and directory loads the snapshot, and every query    *)
(* returns the same ids, distances and order as on the instance it         *)
(* replaces (stated for an instance that holds at least one stored id).    *)
(***************************************************************************)
C9_ReloadStep ==
    (result'.op = "reload" /\ StoredIds(dbIndex) # {})
    => \A query \in Queries, k \in 1..MaxK, ids \in SUBSET Ids :
        search(dbIndex', query, k, ids) = search(dbIndex, query, k, ids)

C9_ReloadRoundTrip == [][C9_ReloadStep]_vars

(***************************************************************************)
(* C10: for every positive resize factor and every configured maxElements, *)
(* the capacity of the structure is at least the cumulative element        *)
(* counter after every addVectors.                                         *)
(***************************************************************************)
C10_CapacityCoversCounter ==
    Initialized(dbIndex)
    => dbIndex.index.maxElements >= dbIndex.indexMetadata.elements

(***************************************************************************)
(* C11: growth.  addVectors changes the capacity only when the cumulative  *)
(* counter exceeds the capacity the call found, the new capacity is then   *)
(* max(counter * resizeFactor, DEFAULT_MAX_ELEMENTS_IN_INDEX), the         *)
(* capacity never decreases from one addVectors to the next, and once the  *)
(* counter has passed the initial capacity a search with k = the number of *)
(* live ids returns every live id.                                         *)
(***************************************************************************)
\* the capacity an addVectors call finds: that of the structure, or the one
\* initIndex gives it when the call has to initialize
CapacityBefore(o) ==
    IF ~o.index.null THEN o.index.maxElements
    ELSE IF o.indexConfig.maxElements = {} THEN DEFAULT_MAX_ELEMENTS_IN_INDEX
    ELSE CHOOSE n \in o.indexConfig.maxElements : TRUE

C11_CapacityStep ==
    (result'.op = "add" /\ Initialized(dbIndex'))
    => /\ dbIndex'.index.maxElements >= CapacityBefore(dbIndex)
       /\ dbIndex'.index.maxElements # CapacityBefore(dbIndex)
          => /\ dbIndex'.indexMetadata.elements > CapacityBefore(dbIndex)
             /\ dbIndex'.index.maxElements = newSize(dbIndex')

C11_AllLiveIdsFound ==
    (/\ Initialized(dbIndex)
     /\ result.op = "add" /\ result.err = ""
     /\ dbIndex.indexMetadata.elements > DEFAULT_MAX_ELEMENTS_IN_INDEX
     /\ LiveIds(dbIndex) # {})
    => \A query \in GoodQueries :
        \A r \in search(dbIndex, query, Cardinality(LiveIds(dbIndex)), {}) :
            r.err = "" /\ HitIds(r.hits) = LiveIds(dbIndex)

C11_Growth == []C11_AllLiveIdsFound /\ [][C11_CapacityStep]_vars

(***************************************************************************)
(* C19: when an addVectors or deleteVectors call returns, the snapshot     *)
(* file of the index holds the structure as the call leaves it in memory   *)
(* (the points with the call's inserts and overwrites, the tombstones, the *)
(* capacity); and the first addVectors on an uninitialized index sets the  *)
(* counter to 0 and writes the snapshot of the empty structure before it   *)
(* inserts, so that a first call that throws at the dimension check leaves *)
(* that snapshot behind.                                                   *)
(***************************************************************************)
Snapshot(o, d) == d.files[indexSavePath(o)]

HasSnapshot(o, d) ==
    o.saveFolder \in d.dirs /\ indexSavePath(o) \in DOMAIN d.files

C19_SnapshotStep ==
    /\ (result'.op \in {"add", "delete"} /\ result'.err = "")
        => /\ HasSnapshot(dbIndex', disk')
           /\ Snapshot(dbIndex', disk') = dbIndex'.index
    /\ (result'.op = "add" /\ dbIndex.index.null)
        => /\ HasSnapshot(dbIndex', disk')
           /\ result'.err = "DimensionMismatch"
              => /\ dbIndex'.indexMetadata.elements = 0
                 /\ Snapshot(dbIndex', disk').points = EmptyMap

C19_InitPersists ==
    dbIndex.index.null
    => LET s == initIndex(dbIndex, disk)
       IN  /\ s.o.indexMetadata.elements = 0
           /\ HasSnapshot(s.o, s.d)
           /\ Snapshot(s.o, s.d) = s.o.index
           /\ s.o.index.points = EmptyMap

C20_DropStep ==
    (result'.op = "dropIndex" /\ Initialized(dbIndex))
    => /\ result'.err = ""
       /\ indexSavePath(dbIndex) \notin DOMAIN disk'.files
       /\ dbIndex'.index = NullIndex
       /\ dbIndex'.indexMetadata = NullMetadata
       /\ dbIndex'.idToLabel = EmptyMap
       /\ dbIndex'.labelToId = EmptyMap
       /\ \A query \in Queries, k \in 1..MaxK, ids \in SUBSET Ids :
            \A r \in search(dbIndex', query, k, ids) : r.err = "InvalidIndexState"
       /\ \A indexData \in GoodBatches :
            LET r == add(dbIndex', disk', indexData, FALSE)
            IN  /\ r.err = ""
                /\ Initialized(r.o)
                /\ r.o.indexMetadata.elements = Cardinality(BatchIds(indexData))

C20_DropIndexResets == [][C20_DropStep]_vars

(***************************************************************************)
(* C12: createCollection on a name that a collection row already has       *)
(* fails with AlreadyExists when getOrCreate is false and returns that row *)
(* (its original id) when getOrCreate is true; either way it writes no     *)
(* collection row and registers no index, and no two collection rows ever  *)
(* share a name.                                                           *)
(***************************************************************************)
RowsNamed(s, name) == {c \in s.collections : c.name = name}

C12_ExistingNameNotCreated ==
    /\ \A name \in CollectionNames, getOrCreate \in BOOLEAN :
        RowsNamed(sqliteDb, name) # {}
        => \A r \in createCollection(sqliteDb, disk, name, CollectionRowMetadata,
                                     getOrCreate) :
            /\ getOrCreate => r.err = "" /\ r.rows = RowsNamed(sqliteDb, name)
            /\ ~getOrCreate => r.err = "AlreadyExists"
            /\ r.s.collections = sqliteDb.collections
            /\ r.s.indexCache = sqliteDb.indexCache
    /\ \A c1, c2 \in sqliteDb.collections : c1.name = c2.name => c1 = c2

(***************************************************************************)
(* C13: a request that obtains or creates the index of a collection that   *)
(* has a row leaves exactly one DbIndex registered for its id in           *)
(* _indexCache, and a second request for the same id leaves the entry of   *)
(* the first in place.                                                     *)
(***************************************************************************)
NoIndexRegistered(s, collectionId) ==
    s.indexCache.undefined \/ cached(s, collectionId) = {}

C13_OneIndexPerCollection ==
    \A collectionId \in CollectionIds :
        getCollectionById(sqliteDb, collectionId).rows # {}
        => LET r1 == createIndexForCollection(sqliteDb, disk, collectionId)
               r2 == createIndexForCollection(r1.s, r1.d, collectionId)
           IN  /\ r1.err = ""
               /\ ~NoIndexRegistered(r1.s, collectionId)
               /\ r2.err = ""
               /\ r2.s.indexCache = r1.s.indexCache

(***************************************************************************)
(* C14: addEmbeddingToCollection and getNearestNeighbors on a collection   *)
(* that has a row (one the lookup of the call finds) but no entry in       *)
(* _indexCache fail with InvalidIndexState and change neither the indexes, *)
(* the cache, the snapshots nor the embedding rows.                        *)
(***************************************************************************)
Registered(s, name) ==
    /\ RowsNamed(s, name) # {}
    /\ getCollectionByName(s, name).rows = RowsNamed(s, name)

C14_UnregisteredIndexRejected ==
    /\ \A input \in EmbeddingInputs, newId \in Ids :
        (/\ Registered(sqliteDb, input.collectionName)
         /\ getEmbeddingById(sqliteDb, newId) = {}
         /\ \A c \in RowsNamed(sqliteDb, input.collectionName) :
                NoIndexRegistered(sqliteDb, c.id))
        => LET r == addEmbeddingToCollection(sqliteDb, disk, input, newId)
           IN  r.err = "InvalidIndexState" /\ r.s = sqliteDb /\ r.d = disk
    /\ \A queryInput \in SearchQueryInputs :
        (/\ Registered(sqliteDb, queryInput.collectionName)
         /\ \A c \in RowsNamed(sqliteDb, queryInput.collectionName) :
                NoIndexRegistered(sqliteDb, c.id))
        => \A r \in getNearestNeighbors(sqliteDb, disk, queryInput) :
            r.err = "InvalidIndexState" /\ r.s = sqliteDb /\ r.d = disk

(***************************************************************************)
(* C17: updateEmbedding and deleteEmbedding that name a collection and an  *)
(* embedding row owned by another collection fail with OwnershipMismatch   *)
(* and change no index, no snapshot and no row.                            *)
(***************************************************************************)
OwnedByAnother(s, name, embeddingId) ==
    /\ RowsNamed(s, name) # {}
    /\ getEmbeddingById(s, embeddingId) # {}
    /\ \A c \in RowsNamed(s, name), e \in getEmbeddingById(s, embeddingId) :
        e.collectionId # c.id

C17_OwnershipMismatch ==
    /\ \A input \in UpdateInputs :
        OwnedByAnother(sqliteDb, input.collectionName, input.embeddingId)
        => LET r == updateEmbedding(sqliteDb, disk, input)
           IN  r.err = "OwnershipMismatch" /\ r.s = sqliteDb /\ r.d = disk
    /\ \A name \in CollectionNames, embeddingId \in Ids :
        OwnedByAnother(sqliteDb, name, embeddingId)
        => LET r == deleteEmbedding(sqliteDb, disk, name, embeddingId)
           IN  r.err = "OwnershipMismatch" /\ r.s = sqliteDb /\ r.d = disk

(***************************************************************************)
(* C18: for a collection X that has a row, the candidate set get()         *)
(* computes holds only embedding rows of X that pass every present         *)
(* predicate of `where`, and every hit getNearestNeighbors returns is one  *)
(* of those rows; when no row of X passes, there are no hits.              *)
(***************************************************************************)
Matching(s, queryInput) ==
    {e \in s.embeddings :
        /\ \E c \in RowsNamed(s, queryInput.collectionName) : e.collectionId = c.id
        /\ queryInput.where.documentId # {}
            => e.documentId \in queryInput.where.documentId
        /\ queryInput.where.embeddingIds # {}
            => e.id \in queryInput.where.embeddingIds}

MapMatchesPoints(o) ==
    Initialized(o)
    => /\ LiveIds(o) = StoredIds(o)
       /\ o.indexMetadata.elements = getCurrentCount(o.index)

C24_Step ==
    (/\ MapMatchesPoints(dbIndex)
     /\ \/ result'.op = "add" /\ result'.err \in {"", "DuplicateId"}
        \/ result'.op = "delete")
    => MapMatchesPoints(dbIndex')

C24_MapMatchesPoints == [][C24_Step]_vars

(***************************************************************************)
(* C25: an update changes its target and nothing else.  updateCollection   *)
(* of a collection that exists, to a name no other collection holds,       *)
(* writes the new name and metadata to that collection's row and leaves    *)
(* every other collection row, every embedding row, every index and the    *)
(* snapshots as they were; updateEmbedding leaves every embedding row of   *)
(* another id and every collection row as they were.                       *)
(***************************************************************************)
NamedCollection(currentName) ==
    {c \in sqliteDb.collections : c.name = currentName /\ c.id = currentName}

OtherEmbeddings(s, embeddingId) == {e \in s.embeddings : e.id # embeddingId}

C25_UpdateChangesTargetOnly ==
    /\ \A currentName \in CollectionNames, newName \in NewNames,
          newMetadata \in NewMetadatas :
          LET target == NamedCollection(currentName)
              others == sqliteDb.collections \ target
              name == IF newName = {} THEN currentName
                      ELSE CHOOSE n \in newName : TRUE
              r == updateCollection(sqliteDb, disk, currentName, newName,
                                    newMetadata)
          IN  (target # {} /\ \A c \in others : c.name # name)
              => /\ r.err = ""
                 /\ r.s.collections =
                        others \cup
                        {[c EXCEPT !.name = name,
                                   !.metadata = IF newMetadata = {} THEN @
                                                ELSE CHOOSE m \in newMetadata : TRUE] :
                            c \in target}
                 /\ r.s.embeddings = sqliteDb.embeddings
                 /\ r.s.indexCache = sqliteDb.indexCache
                 /\ r.d = disk
    /\ \A input \in UpdateInputs :
          LET r == updateEmbedding(sqliteDb, disk, input)
          IN  /\ OtherEmbeddings(r.s, input.embeddingId)
                     = OtherEmbeddings(sqliteDb, input.embeddingId)
              /\ r.s.collections = sqliteDb.collections

(***************************************************************************)
(* C22: whatever the interleaving of addVectors and deleteVectors calls at *)
(* their awaits, no label is assigned to two ids (neither among the live   *)
(* ids nor over the whole history), no id holds two labels, initIndex has  *)
(* run at most once, and the element counter equals the number of labels   *)
(* assigned.                                                               *)
(***************************************************************************)
C22_LabelsUnderInterleaving ==
    /\ \A id1, id2 \in DOMAIN dbIndex.idToLabel :
           dbIndex.idToLabel[id1] = dbIndex.idToLabel[id2] => id1 = id2
    /\ \A i, j \in 1..Len(assignLog) :
           assignLog[i][2] = assignLog[j][2] => i = j
    /\ \A l1, l2 \in DOMAIN dbIndex.labelToId :
           dbIndex.labelToId[l1] = dbIndex.labelToId[l2] => l1 = l2
    /\ \A id \in DOMAIN dbIndex.idToLabel :
           /\ dbIndex.idToLabel[id] \in DOMAIN dbIndex.labelToId
           /\ dbIndex.labelToId[dbIndex.idToLabel[id]] = id
    /\ calls.inits <= 1
    /\ Initialized(dbIndex) => dbIndex.indexMetadata.elements = Len(assignLog)

\* while one addVectors call awaits the write of initIndex, another call,
\* begun after it, has assigned a label and awaits its own write
C22_Witness ==
    \E t, u \in Calls :
        /\ calls.pending[t].pc = "initIndex"
        /\ calls.pending[t].indexData # <<>>
        /\ calls.pending[u].pc = "save"
        /\ calls.pending[u].op = "add"
        /\ calls.pending[u].log # <<>>
        /\ dbIndex.indexMetadata.elements = Len(assignLog)
        /\ calls.inits = 1

====
